---- MODULE Spec2Model ----
(***************************************************************************)
(* A model of ru402's Rust client: the entity decoders of src/book.rs      *)
(* (Edition / InventoryStatus parsing, Book and Recommendations decoding   *)
(* from redis values) and the operations of examples/books.rs (encode,     *)
(* create_index, get_recommendation, get_recommendation_by_range and the   *)
(* load loop of main) run against a model of the search engine.            *)
(***************************************************************************)
EXTENDS Integers, Sequences, FiniteSets, TLC

VARIABLES
    reply,      \* SpecDecode: the redis value handed to Recommendations::from_redis_value
    decoded,    \* SpecDecode: what from_redis_value returned for it
    stored,     \* SpecBook: the redis value handed to Book::from_redis_value
    book,       \* SpecBook: what from_redis_value returned for it
    fs,         \* SpecEncode: the Vec<f32> handed to encode (32-bit patterns)
    bytes,      \* SpecEncode: the Vec<u8> encode returned
    token,      \* SpecParse: the &str handed to from_str (a sequence of characters)
    edition,    \* SpecParse: what Edition::from_str returned
    status,     \* SpecParse: what InventoryStatus::from_str returned
    docs,       \* Spec: the engine's JSON documents, key -> document or Absent
    indices,    \* Spec: the names of the engine's search indices
    wire,       \* Spec: the commands sent on the connection, with the engine's replies
    result      \* Spec: what the last operation returned

vars == <<reply, decoded, stored, book, fs, bytes, token, edition, status,
          docs, indices, wire, result>>

decodeVars == <<reply, decoded>>
bookVars   == <<stored, book>>
encodeVars == <<fs, bytes>>
parseVars  == <<token, edition, status>>
clientVars == <<docs, indices, wire, result>>

(***************************************************************************)
(* Values.                                                                 *)
(***************************************************************************)

\* No call has returned yet.
Pending == [kind |-> "Pending"]

\* Result::Ok(v), Result::Err(e), and a panic (Option::unwrap on None).
Ok(v)    == [kind |-> "Ok", val |-> v]
Err(why) == [kind |-> "Err", why |-> why]
Panic    == [kind |-> "Panic"]

\* redis::Value (each variant with a field of its own, so that values of
\* different variants compare): Nil, Int(i64), Data(Vec<u8>), Bulk(Vec<Value>), Status(String).
Nil       == [t |-> "Nil"]
ValInt(n)  == [t |-> "Int", n |-> n]
Data(s)   == [t |-> "Data", s |-> s]
Bulk(seq) == [t |-> "Bulk", items |-> seq]
Status(s) == [t |-> "Status", s |-> s]

\* Value::as_sequence: the items of a Bulk, an empty slice for Nil, None otherwise.
as_sequence(v) ==
    IF v.t = "Bulk" THEN Ok(v.items)
    ELSE IF v.t = "Nil" THEN Ok(<<>>)
    ELSE Err("None")

\* redis::from_redis_value::<String>: Data and Status convert, anything else
\* is a type error.
String_from_redis_value(v) ==
    IF v.t \in {"Data", "Status"} THEN Ok(v.s)
    ELSE Err("TypeError")

\* str::parse::<u64> on the texts the model's replies carry.
ParseU64(s) ==
    CASE s = "0" -> Ok(0)
      [] s = "2" -> Ok(2)
      [] s = "7" -> Ok(7)
      [] OTHER   -> Err("TypeError")

\* redis::from_redis_value::<u64>: an Int converts as is, Data and Status are
\* parsed as decimal text, anything else is a type error.
u64_from_redis_value(v) ==
    IF v.t = "Int" THEN Ok(v.n)
    ELSE IF v.t \in {"Data", "Status"} THEN ParseU64(v.s)
    ELSE Err("TypeError")

\* str::parse::<f32> on the texts the model's replies carry; an f32 is
\* modelled by its value in hundredths.
ParseF32(s) ==
    CASE s = "0.10" -> Ok(10)
      [] s = "0.20" -> Ok(20)
      [] s = "0"    -> Ok(0)
      [] s = "2"    -> Ok(200)
      [] s = "7"    -> Ok(700)
      [] OTHER      -> Err("TypeError")

\* redis::from_redis_value::<f32>.
f32_from_redis_value(v) ==
    IF v.t = "Int" THEN Ok(v.n * 100)
    ELSE IF v.t \in {"Data", "Status"} THEN ParseF32(v.s)
    ELSE Err("TypeError")

(***************************************************************************)
(* impl FromRedisValue for Recommendations (book.rs).                      *)
(***************************************************************************)

\* The inner loop, mutated: the first title and the first score win.
RECURSIVE FieldLoopFirstWins(_, _, _, _)
FieldLoopFirstWins(values, title, score, seen) ==
    IF Len(values) < 2 THEN Ok([title |-> title, score |-> score])
    ELSE LET key == String_from_redis_value(values[1])
             rest == SubSeq(values, 3, Len(values))
         IN  IF key.kind = "Err" THEN key
             ELSE IF key.val = "title" THEN
                 LET t == String_from_redis_value(values[2])
                 IN  IF t.kind = "Err" THEN t
                     ELSE IF "title" \in seen
                          THEN FieldLoopFirstWins(rest, title, score, seen)
                          ELSE FieldLoopFirstWins(rest, t.val, score, seen \cup {"title"})
             ELSE IF key.val = "score" THEN
                 LET s == f32_from_redis_value(values[2])
                 IN  IF s.kind = "Err" THEN s
                     ELSE IF "score" \in seen
                          THEN FieldLoopFirstWins(rest, title, score, seen)
                          ELSE FieldLoopFirstWins(rest, title, s.val, seen \cup {"score"})
             ELSE FieldLoopFirstWins(rest, title, score, seen)

FieldLoopFirstOnly(values, title, score) ==
    FieldLoopFirstWins(values, title, score, {})

\* while let (Some(k), Some(v)) = (values.next(), values.next()) { ... }:
\* both next() calls run before the pattern is matched, so a last key with no
\* value ends the loop like an exhausted iterator does.
RECURSIVE FieldLoop(_, _, _)
FieldLoop(values, title, score) ==
    IF Len(values) < 2 THEN Ok([title |-> title, score |-> score])
    ELSE LET key == String_from_redis_value(values[1])
             rest == SubSeq(values, 3, Len(values))
         IN  IF key.kind = "Err" THEN key
             ELSE IF key.val = "title" THEN
                 LET t == String_from_redis_value(values[2])
                 IN  IF t.kind = "Err" THEN t ELSE FieldLoop(rest, t.val, score)
             ELSE IF key.val = "score" THEN
                 LET s == f32_from_redis_value(values[2])
                 IN  IF s.kind = "Err" THEN s ELSE FieldLoop(rest, title, s.val)
             ELSE FieldLoop(rest, title, score)

\* while let (Some(id), Some(values)) = (iter.next(), iter.next()) { ... }
RECURSIVE PairLoop(_, _)
PairLoop(rest, recommendations) ==
    IF Len(rest) < 2 THEN Ok(recommendations)
    ELSE LET id == String_from_redis_value(rest[1])
             values == as_sequence(rest[2])
         IN  IF id.kind = "Err" THEN id
             ELSE IF values.kind = "Err" THEN Panic
             ELSE LET f == FieldLoop(values.val, "", 0)
                  IN  IF f.kind = "Err" THEN f
                      ELSE PairLoop(SubSeq(rest, 3, Len(rest)),
                                    Append(recommendations,
                                           [id |-> id.val, title |-> f.val.title,
                                            score |-> f.val.score]))

Recommendations_from_redis_value(v) ==
    LET seq == as_sequence(v)
    IN  IF seq.kind = "Err" THEN Panic
        ELSE IF Len(seq.val) = 0 THEN Panic
        ELSE LET count == u64_from_redis_value(seq.val[1])
                 recs == PairLoop(Tail(seq.val), <<>>)
             IN  IF count.kind = "Err" THEN count
                 ELSE IF recs.kind # "Ok" THEN recs
                 ELSE Ok([count |-> count.val, recommendations |-> recs.val])

(***************************************************************************)
(* The replies the decoder is run on.                                      *)
(***************************************************************************)

\* At most this many (identifier, field-list) pairs in a reply.
MaxRecs == 2
\* At most this many elements in the field-lists of a reply, taken together.
MaxElems == 4

ReplyIds    == {Data("book:9"), Data("book:5")}
ReplyCounts == {ValInt(0), ValInt(7)}

\* The key/value pairs of a field-list: titles, scores and one more field.
FieldPairs ==
    { <<Data("title"), Data("T")>>, <<Data("title"), Data("0.10")>>,
      <<Data("score"), Data("0.10")>>, <<Data("score"), Data("0.20")>>,
      <<Data("author"), Data("T")>> }

\* Field-lists of n elements: pairs, and for an odd n a last key with no
\* value.
FieldListsOfLen(n) ==
    { s \in [1..n -> {Data("title"), Data("score"), Data("author"),
                      Data("T"), Data("0.10"), Data("0.20")}] :
        /\ \A k \in 1..(n \div 2) : <<s[2 * k - 1], s[2 * k]>> \in FieldPairs
        /\ n % 2 = 1 => s[n] \in {Data("title"), Data("score")} }

\* The sequences id_1, fields_1, ..., id_n, fields_n with at most `budget`
\* field elements in all.
RECURSIVE ReplyBodies(_, _)
ReplyBodies(n, budget) ==
    IF n = 0 THEN {<<>>}
    ELSE UNION { UNION { { <<id, Bulk(f)>> \o more : more \in ReplyBodies(n - 1, budget - len) }
                         : id \in ReplyIds, f \in FieldListsOfLen(len) }
                 : len \in 0..budget }

\* A reply: a count, the pairs, and possibly one more identifier with no
\* field-list after it.
Replies ==
    { Bulk(<<c>> \o body \o tail) :
        c \in ReplyCounts,
        body \in UNION { ReplyBodies(n, MaxElems) : n \in 0..MaxRecs },
        tail \in {<<>>, <<Data("book:1")>>} }

\* Replies with a count or a score given as text, and values that are no
\* replies of that shape.
OtherReplies ==
    { Bulk(<<Data("7")>>), Bulk(<<Data("T"), Data("book:9"), Bulk(<<>>)>>),
      Bulk(<<ValInt(1), Data("book:1"), Bulk(<<Data("score"), Data("T")>>)>>),
      Bulk(<<ValInt(1), Data("book:1"), Bulk(<<Data("score"), ValInt(2)>>)>>),
      Nil, ValInt(2), Bulk(<<>>), Bulk(<<ValInt(1), ValInt(9), Bulk(<<>>)>>),
      Bulk(<<ValInt(1), Data("book:1"), Data("title")>>),
      Bulk(<<ValInt(1), Data("book:1"), Bulk(<<ValInt(3), Data("T")>>)>>) }

InitIdleDecode == reply = Nil /\ decoded = Pending
InitIdleBook   == stored = Nil /\ book = Pending
InitIdleEncode == fs = <<>> /\ bytes = Pending
InitIdleParse  == token = <<>> /\ edition = Pending /\ status = Pending
InitIdleClient == docs = <<>> /\ indices = {} /\ wire = <<>> /\ result = Pending

InitDecode ==
    /\ reply \in Replies \cup OtherReplies
    /\ decoded = Pending
    /\ InitIdleBook /\ InitIdleEncode /\ InitIdleParse /\ InitIdleClient

\* let r: Recommendations = FromRedisValue::from_redis_value(&reply)
Decode ==
    /\ decoded = Pending
    /\ decoded' = Recommendations_from_redis_value(reply)
    /\ UNCHANGED <<reply, bookVars, encodeVars, parseVars, clientVars>>

NextDecode == Decode

SpecDecode == InitDecode /\ [][NextDecode]_vars

(***************************************************************************)
(* Claims C1, C2, C3: the Recommendations decoder.                         *)
(***************************************************************************)

\* The number of (identifier, field-list) pairs after the count.
PairCount(r) == (Len(r.items) - 1) \div 2

\* The place of the last `key` among the keys of field-list f, 0 when absent.
LastKeyAt(f, key) ==
    LET at == { j \in 1..Len(f) : j % 2 = 1 /\ f[j].t = "Data" /\ f[j].s = key }
    IN  IF at = {} THEN 0 ELSE CHOOSE j \in at : \A k \in at : k <= j

\* A field-list of key/value pairs whose title values are strings and whose
\* score values are numbers.
EvenFieldList(f) ==
    /\ f.t = "Bulk"
    /\ Len(f.items) % 2 = 0
    /\ \A j \in 1..Len(f.items) :
          /\ f.items[j].t = "Data"
          /\ (j % 2 = 0 /\ f.items[j - 1].s = "score")
                => f.items[j].s \in {"0.10", "0.20"}

\* A reply [count, id_1, fields_1, ..., id_n, fields_n].
PairedReply(r) ==
    /\ r.t = "Bulk"
    /\ Len(r.items) >= 1
    /\ Len(r.items) % 2 = 1
    /\ r.items[1].t = "Int"
    /\ \A i \in 1..PairCount(r) :
          r.items[2 * i].t = "Data" /\ EvenFieldList(r.items[2 * i + 1])

TitleIn(f) ==
    IF LastKeyAt(f, "title") = 0 THEN "" ELSE f[LastKeyAt(f, "title") + 1].s

ScoreIn(f) ==
    IF LastKeyAt(f, "score") = 0 THEN 0
    ELSE IF f[LastKeyAt(f, "score") + 1].s = "0.10" THEN 10 ELSE 20

\* C1: a reply [count, id_1, fields_1, ..., id_n, fields_n] with even
\* field-lists decodes to the count of its first element and to exactly n
\* recommendations, the i-th carrying id_i and the title and score found
\* under the keys "title" and "score" of fields_i (the last one of each when
\* a key is repeated, "" and 0.0 when it is absent), in the reply's order;
\* other keys change nothing.
C1_DecodesPairsInOrder ==
    (decoded # Pending /\ PairedReply(reply)) =>
        /\ decoded.kind = "Ok"
        /\ decoded.val.count = reply.items[1].n
        /\ Len(decoded.val.recommendations) = PairCount(reply)
        /\ \A i \in 1..PairCount(reply) :
              decoded.val.recommendations[i] =
                  [id    |-> reply.items[2 * i].s,
                   title |-> TitleIn(reply.items[2 * i + 1].items),
                   score |-> ScoreIn(reply.items[2 * i + 1].items)]

\* A decoded reply of two pairs, its count not 2, the first with an "author"
\* key before its title, the second with no fields.
C1_Witness ==
    /\ decoded # Pending
    /\ PairedReply(reply)
    /\ PairCount(reply) = 2
    /\ reply.items[1].n = 0
    /\ reply.items[2].s = "book:9"
    /\ reply.items[4].s = "book:5"
    /\ LastKeyAt(reply.items[3].items, "author") = 1
    /\ LastKeyAt(reply.items[3].items, "title") = 3
    /\ Len(reply.items[5].items) = 0
    /\ decoded.kind = "Ok"

\* Some field-list of the reply has an odd number of elements.
HasOddFieldList(r) ==
    /\ r.t = "Bulk"
    /\ \E i \in 1..Len(r.items) :
          r.items[i].t = "Bulk" /\ Len(r.items[i].items) % 2 = 1

\* C2: decoding a reply in which a field-list has an odd number of elements
\* fails with a decode error.
C2_OddFieldListIsError ==
    (decoded # Pending /\ HasOddFieldList(reply)) => decoded.kind = "Err"

\* C3: decoding a reply whose outer sequence has, after the count, an odd
\* number of elements fails with a decode error.
C3_OddOuterIsError ==
    (decoded # Pending /\ reply.t = "Bulk" /\ Len(reply.items) >= 2
        /\ Len(reply.items) % 2 = 0) => decoded.kind = "Err"

(***************************************************************************)
(* impl FromStr for Edition, impl FromStr for InventoryStatus (book.rs).   *)
(* A &str is a sequence of one-character strings.                          *)
(***************************************************************************)

UpperCase == <<"A", "B", "C", "D", "E", "F", "G", "H", "I", "J", "K", "L", "M",
               "N", "O", "P", "Q", "R", "S", "T", "U", "V", "W", "X", "Y", "Z">>
LowerCase == <<"a", "b", "c", "d", "e", "f", "g", "h", "i", "j", "k", "l", "m",
               "n", "o", "p", "q", "r", "s", "t", "u", "v", "w", "x", "y", "z">>

\* u8::to_ascii_lowercase: 'A'..'Z' to 'a'..'z', every other character as is.
LowerChar(c) ==
    IF \E k \in 1..Len(UpperCase) : UpperCase[k] = c
    THEN LowerCase[CHOOSE k \in 1..Len(UpperCase) : UpperCase[k] = c]
    ELSE c

\* str::to_ascii_lowercase.
to_ascii_lowercase(s) == [i \in 1..Len(s) |-> LowerChar(s[i])]

W_english     == <<"e", "n", "g", "l", "i", "s", "h">>
W_spanish     == <<"s", "p", "a", "n", "i", "s", "h">>
W_french      == <<"f", "r", "e", "n", "c", "h">>
W_on_loan     == <<"o", "n", "_", "l", "o", "a", "n">>
W_onloan      == <<"o", "n", "l", "o", "a", "n">>
W_available   == <<"a", "v", "a", "i", "l", "a", "b", "l", "e">>
W_maintenance == <<"m", "a", "i", "n", "t", "e", "n", "a", "n", "c", "e">>

\* format!("Unknown edition: {}", e): the fixed text, then e.
UnknownEdition(e) == <<"Unknown edition: ">> \o e

\* format!("Unknown inventory status: {}", e).
UnknownInventoryStatus(e) == <<"Unknown inventory status: ">> \o e

\* Edition::from_str: the match is on the lower-cased text, and `e` in its
\* last arm is bound to that lower-cased text.
Edition_from_str(s) ==
    LET e == to_ascii_lowercase(s)
    IN  CASE e = W_english -> Ok("English")
          [] e = W_spanish -> Ok("Spanish")
          [] e = W_french  -> Ok("French")
          [] OTHER         -> Err(UnknownEdition(e))

\* InventoryStatus::from_str.
InventoryStatus_from_str(s) ==
    LET e == to_ascii_lowercase(s)
    IN  CASE e = W_on_loan     -> Ok("OnLoan")
          [] e = W_onloan      -> Ok("OnLoan")
          [] e = W_available   -> Ok("Available")
          [] e = W_maintenance -> Ok("Maintenance")
          [] OTHER             -> Err(UnknownInventoryStatus(e))

(***************************************************************************)
(* The tokens the parsers are run on: every spelling, in every mix of      *)
(* upper and lower case, of the table's words and of words outside it.     *)
(***************************************************************************)

UpperChar(c) ==
    IF \E k \in 1..Len(LowerCase) : LowerCase[k] = c
    THEN UpperCase[CHOOSE k \in 1..Len(LowerCase) : LowerCase[k] = c]
    ELSE c

CaseVariants(w) ==
    { [i \in 1..Len(w) |-> IF i \in up THEN UpperChar(w[i]) ELSE w[i]] :
        up \in SUBSET (1..Len(w)) }

W_italian == <<"i", "t", "a", "l", "i", "a", "n">>
W_lost    == <<"l", "o", "s", "t">>
W_on_loan_spaced == <<"o", "n", " ", "l", "o", "a", "n">>

Tokens ==
    UNION { CaseVariants(w) :
              w \in {W_english, W_spanish, W_french, W_on_loan, W_onloan, W_available,
                     W_maintenance, W_italian, W_lost, W_on_loan_spaced, <<>>} }

InitParse ==
    /\ token \in Tokens
    /\ edition = Pending
    /\ status = Pending
    /\ InitIdleDecode /\ InitIdleBook /\ InitIdleEncode /\ InitIdleClient

\* let e: Result<Edition, String> = token.parse()
ParseEdition ==
    /\ edition = Pending
    /\ edition' = Edition_from_str(token)
    /\ UNCHANGED <<token, status, decodeVars, bookVars, encodeVars, clientVars>>

\* let s: Result<InventoryStatus, String> = token.parse()
ParseInventoryStatus ==
    /\ status = Pending
    /\ status' = InventoryStatus_from_str(token)
    /\ UNCHANGED <<token, edition, decodeVars, bookVars, encodeVars, clientVars>>

NextParse == ParseEdition \/ ParseInventoryStatus

SpecParse == InitParse /\ [][NextParse]_vars

(***************************************************************************)
(* Claim C7: enum parsing.                                                 *)
(***************************************************************************)

\* a and b differ at most in the case of their letters.
SameButCase(a, b) ==
    /\ Len(a) = Len(b)
    /\ \A i \in 1..Len(a) :
          \/ a[i] = b[i]
          \/ \E k \in 1..Len(UpperCase) :
                {a[i], b[i]} = {UpperCase[k], LowerCase[k]}

\* The message ends with the token.
Carries(msg, tok) ==
    /\ Len(msg) >= Len(tok)
    /\ SubSeq(msg, Len(msg) - Len(tok) + 1, Len(msg)) = tok

EditionTable ==
    { <<W_english, "English">>, <<W_spanish, "Spanish">>, <<W_french, "French">> }

InventoryStatusTable ==
    { <<W_on_loan, "OnLoan">>, <<W_onloan, "OnLoan">>,
      <<W_available, "Available">>, <<W_maintenance, "Maintenance">> }

\* What the claim has a parser over `table` return for `tok`.
ParsedByTable(table, tok, got) ==
    IF \E row \in table : SameButCase(row[1], tok)
    THEN \E row \in table : SameButCase(row[1], tok) /\ got = Ok(row[2])
    ELSE got.kind = "Err" /\ Carries(got.why, tok)

\* C7: Edition and InventoryStatus parsing is case-insensitive over a fixed
\* table ("on_loan" and "onloan" both OnLoan), and every token outside the
\* table fails with an error that carries the original input token.
C7_ParsesByTableKeepingToken ==
    /\ edition # Pending => ParsedByTable(EditionTable, token, edition)
    /\ status # Pending => ParsedByTable(InventoryStatusTable, token, status)

(***************************************************************************)
(* impl FromRedisValue for Book (book.rs).  A JSON text is modelled by the *)
(* value it denotes: an object with a Book's fields, an array of such      *)
(* objects, or a text that is no JSON at all.                              *)
(***************************************************************************)

JObj(o)   == [j |-> "Obj", o |-> o]
JArr(a)   == [j |-> "Arr", a |-> a]
JInvalid  == [j |-> "Invalid"]

\* Option<Vec<f32>>.
None    == [some |-> FALSE]
Some(v) == [some |-> TRUE, v |-> v]

\* #[derive(Deserialize)] struct Book, from a JSON object: every edition is
\* parsed by Edition::from_str (impl Deserialize for Edition), and one that
\* fails fails the Book.
Book_deserialize(o) ==
    LET eds == [i \in 1..Len(o.editions) |-> Edition_from_str(o.editions[i])]
    IN  IF \E i \in 1..Len(eds) : eds[i].kind = "Err"
        THEN Err("Json")
        ELSE Ok([id |-> o.id, embedding |-> o.embedding,
                 editions |-> [i \in 1..Len(eds) |-> eds[i].val]])

\* serde_json::from_str::<Vec<Book>>: the text must be an array, and each of
\* its items a Book.
VecBook_from_str(json) ==
    IF json.j # "Arr" THEN Err("Json")
    ELSE IF \E i \in 1..Len(json.a) : Book_deserialize(json.a[i].o).kind = "Err"
    THEN Err("Json")
    ELSE Ok([i \in 1..Len(json.a) |-> Book_deserialize(json.a[i].o).val])

\* Book::from_redis_value: books.first().unwrap() panics on an empty array.
Book_from_redis_value(v) ==
    LET json == String_from_redis_value(v)
    IN  IF json.kind = "Err" THEN json
        ELSE LET books == VecBook_from_str(json.val)
             IN  IF books.kind = "Err" THEN books
                 ELSE IF Len(books.val) = 0 THEN Panic
                 ELSE Ok(books.val[1])

(***************************************************************************)
(* The stored records the Book decoder is run on.                          *)
(***************************************************************************)

\* At most this many objects in a stored array.
MaxArr == 2

\* f32 values as their IEEE-754 bit patterns, in two 16-bit halves:
\* 0.0, 1.0, -1.0, 0.1 and 0x01020304.
F32(hi, lo) == [hi |-> hi, lo |-> lo]
F32s == {F32(0, 0), F32(16256, 0), F32(49024, 0), F32(15820, 52429), F32(258, 772)}

BookObjects ==
    { [id |-> id, embedding |-> e, editions |-> eds] :
        id \in {"9", "26415"},
        e \in {None, Some(<<F32(16256, 0)>>)},
        eds \in {<<>>, <<<<"E", "n", "g", "l", "i", "s", "h">>>>,
                 <<<<"i", "t", "a", "l", "i", "a", "n">>>>} }

JsonTexts ==
    { JObj(o) : o \in BookObjects }
    \cup UNION { { JArr([i \in 1..n |-> JObj(os[i])]) : os \in [1..n -> BookObjects] }
                 : n \in 0..MaxArr }
    \cup { JInvalid }

StoredValues == { Data(j) : j \in JsonTexts } \cup { Nil }

InitBook ==
    /\ stored \in StoredValues
    /\ book = Pending
    /\ InitIdleDecode /\ InitIdleEncode /\ InitIdleParse /\ InitIdleClient

\* let b: Book = FromRedisValue::from_redis_value(&stored)
DecodeBook ==
    /\ book = Pending
    /\ book' = Book_from_redis_value(stored)
    /\ UNCHANGED <<stored, decodeVars, encodeVars, parseVars, clientVars>>

NextBook == DecodeBook

SpecBook == InitBook /\ [][NextBook]_vars

(***************************************************************************)
(* Claim C4: the Book decoder.                                             *)
(***************************************************************************)

\* The object is a record: a Book can be read from it.
IsRecord(jv) == jv.j = "Obj" /\ Book_deserialize(jv.o).kind = "Ok"

\* C4: decoding yields a Book exactly when the input is a single record
\* object or a one-element sequence holding it, the same Book in both cases;
\* an empty sequence and a sequence of more than one element each give a
\* decode error.
C4_BookFromObjectOrSingleton ==
    (book # Pending /\ stored.t = "Data") =>
        LET jv == stored.s
        IN  /\ IsRecord(jv) => book = Book_deserialize(jv.o)
            /\ (jv.j = "Arr" /\ Len(jv.a) = 1 /\ IsRecord(jv.a[1]))
                  => book = Book_deserialize(jv.a[1].o)
            /\ (jv.j = "Arr" /\ Len(jv.a) # 1) => book.kind = "Err"
            /\ book.kind = "Ok" =>
                  \/ IsRecord(jv)
                  \/ jv.j = "Arr" /\ Len(jv.a) = 1 /\ IsRecord(jv.a[1])

(***************************************************************************)
(* encode (examples/books.rs).                                             *)
(***************************************************************************)

\* WriteBytesExt::write_f32::<BigEndian>: the mutant of write_f32_le.
write_f32_be(f) ==
    <<f.hi \div 256, f.hi % 256, f.lo \div 256, f.lo % 256>>

\* vec.write_f32::<LittleEndian>(f): the four bytes of f.to_bits(), the
\* least significant first.
write_f32_le(f) ==
    <<f.lo % 256, f.lo \div 256, f.hi % 256, f.hi \div 256>>

\* for f in fs { vec.write_f32::<LittleEndian>(f).unwrap(); } from position i.
RECURSIVE encode_loop(_, _, _)
encode_loop(v, i, vec) ==
    IF i > Len(v) THEN vec ELSE encode_loop(v, i + 1, vec \o write_f32_le(v[i]))

encode(v) == encode_loop(v, 1, <<>>)

\* At most this many elements in a vector handed to encode.
MaxVecLen == 3

Vectors == UNION { [1..n -> F32s] : n \in 0..MaxVecLen }

InitEncode ==
    /\ fs \in Vectors
    /\ bytes = Pending
    /\ InitIdleDecode /\ InitIdleBook /\ InitIdleParse /\ InitIdleClient

\* let bytes = encode(fs)
Encode ==
    /\ bytes = Pending
    /\ bytes' = Ok(encode(fs))
    /\ UNCHANGED <<fs, decodeVars, bookVars, parseVars, clientVars>>

NextEncode == Encode

SpecEncode == InitEncode /\ [][NextEncode]_vars

(***************************************************************************)
(* Claim C6: the vector codec.                                             *)
(***************************************************************************)

\* C6: encode(v) has length 4 * length(v), bytes 4i..4i+3 are the
\* little-endian bytes of the 32-bit pattern of v[i], and reading the output
\* back as little-endian 32-bit values recovers v element for element.
C6_EncodeLittleEndian ==
    bytes # Pending =>
        LET out == bytes.val
        IN  /\ Len(out) = 4 * Len(fs)
            /\ \A k \in 1..Len(out) : out[k] \in 0..255
            /\ \A i \in 1..Len(fs) :
                  /\ out[4 * i - 3] + 256 * out[4 * i - 2] = fs[i].lo
                  /\ out[4 * i - 1] + 256 * out[4 * i] = fs[i].hi

\* An encoded vector of several elements with distinct bytes.
C6_Witness ==
    /\ bytes # Pending
    /\ Len(fs) >= 2
    /\ fs[1] = F32(258, 772)
    /\ fs[2] = F32(15820, 52429)
    /\ SubSeq(bytes.val, 1, 4) = <<4, 3, 2, 1>>

(***************************************************************************)
(* examples/books.rs: the commands.  A command is the sequence of its      *)
(* arguments as they go on the wire: texts, byte strings, JSON texts.      *)
(***************************************************************************)

INDEX_NAME == "idx:books"

Str(s)   == [a |-> "str", s |-> s]
Blob(b)  == [a |-> "bytes", b |-> b]
Json(jv) == [a |-> "json", j |-> jv]

\* impl ToRedisArgs for integers: the decimal text of the number.
IntArg(n) == Str(ToString(n))

\* connection.json_get(key, "$")
json_get_command(key) == <<Str("JSON.GET"), Str(key), Str("$")>>

\* connection.json_set(key, "$", &book)
json_set_command(key, jv) == <<Str("JSON.SET"), Str(key), Str("$"), Json(jv)>>

\* redis::cmd("FT._LIST")
list_command == <<Str("FT._LIST")>>

\* redis::cmd("FT.CREATE").arg(INDEX_NAME)...arg("COSINE")
create_command ==
    <<Str("FT.CREATE"), Str(INDEX_NAME), Str("ON"), Str("JSON"),
      Str("PREFIX"), Str("1"), Str("book:"), Str("SCHEMA"),
      Str("$.author"), Str("AS"), Str("author"), Str("TEXT"),
      Str("$.title"), Str("AS"), Str("title"), Str("TEXT"),
      Str("$.description"), Str("AS"), Str("description"), Str("TEXT"),
      Str("$.embedding"), Str("AS"), Str("embedding"), Str("VECTOR"),
      Str("HNSW"), Str("6"), Str("TYPE"), Str("FLOAT32"), Str("DIM"), Str("384"),
      Str("DISTANCE_METRIC"), Str("COSINE")>>

KnnQuery   == "*=>[KNN 5 @embedding $vec AS score]"
RangeQuery == "@embedding:[VECTOR_RANGE $radius $vec]=>{$YIELD_DISTANCE_AS: score}"

\* The FT.SEARCH of get_recommendation.
knn_command(encoded_embedding) ==
    <<Str("FT.SEARCH"), Str(INDEX_NAME), Str(KnnQuery),
      Str("PARAMS"), IntArg(2), Str("vec"), Blob(encoded_embedding),
      Str("RETURN"), Str("2"), Str("title"), Str("score"),
      Str("SORTBY"), Str("score"),
      Str("LIMIT"), IntArg(0), IntArg(5),
      Str("DIALECT"), Str("2")>>

\* The FT.SEARCH of get_recommendation_by_range, mutated: the parameter
\* count of the top-K command is kept.
range_command_params_2(encoded_embedding) ==
    <<Str("FT.SEARCH"), Str(INDEX_NAME), Str(RangeQuery),
      Str("PARAMS"), IntArg(2), Str("radius"), IntArg(3),
      Str("vec"), Blob(encoded_embedding),
      Str("RETURN"), IntArg(2), Str("title"), Str("score"),
      Str("SORTBY"), Str("score"),
      Str("LIMIT"), IntArg(0), IntArg(5),
      Str("DIALECT"), Str("2")>>

\* The FT.SEARCH of get_recommendation_by_range.
range_command(encoded_embedding) ==
    <<Str("FT.SEARCH"), Str(INDEX_NAME), Str(RangeQuery),
      Str("PARAMS"), IntArg(4), Str("radius"), IntArg(3),
      Str("vec"), Blob(encoded_embedding),
      Str("RETURN"), IntArg(2), Str("title"), Str("score"),
      Str("SORTBY"), Str("score"),
      Str("LIMIT"), IntArg(0), IntArg(5),
      Str("DIALECT"), Str("2")>>

(***************************************************************************)
(* The engine, as the client sees it.                                      *)
(***************************************************************************)

Okay == [t |-> "Okay"]
Unit == [unit |-> TRUE]

\* A command with the engine's answer to it.
Exchange(cmd, answer) == [cmd |-> cmd, reply |-> answer]

BookKeys == {"book:9", "book:26415"}

\* let key = format!("book:{}", book.id)
KeyOf(id) == IF id = "9" THEN "book:9" ELSE "book:26415"
\* The id of the book stored under a key.
IdOf(key) == IF key = "book:9" THEN "9" ELSE "26415"

\* JSON.GET key $: nil for a key that holds nothing, else the text of a
\* one-element array holding the document.
EngineJsonGet(key) ==
    IF docs[key].some THEN Ok(Data(JArr(<<JObj(docs[key].v)>>))) ELSE Ok(Nil)

\* FT._LIST: the names of the indices, as status strings, in some order.
IndexLists ==
    { Bulk([i \in DOMAIN q |-> Status(q[i])]) :
        q \in { q \in [1..Cardinality(indices) -> indices] :
                 \A i, j \in DOMAIN q : i # j => q[i] # q[j] } }

\* FT.SEARCH: an error when the index does not exist, else a reply
\* [count, id_1, fields_1, ...] of the engine's choice.
SearchReplies ==
    IF INDEX_NAME \notin indices THEN { Err("ServerError") }
    ELSE { Ok(Bulk(<<ValInt(0)>>)),
           Ok(Bulk(<<ValInt(7), Data("book:9"),
                     Bulk(<<Data("title"), Data("T"), Data("score"), Data("0.10")>>)>>)) }

\* #[derive(Serialize)] enum Edition: the variant's name.
Edition_serialize(e) ==
    CASE e = "English" -> <<"E", "n", "g", "l", "i", "s", "h">>
      [] e = "Spanish" -> <<"S", "p", "a", "n", "i", "s", "h">>
      [] e = "French"  -> <<"F", "r", "e", "n", "c", "h">>

\* #[derive(Serialize)] struct Book.
Book_serialize(b) ==
    JObj([id |-> b.id, embedding |-> b.embedding,
          editions |-> [i \in 1..Len(b.editions) |-> Edition_serialize(b.editions[i])]])

(***************************************************************************)
(* examples/books.rs: the operations.                                      *)
(***************************************************************************)

\* At most this many commands on the connection.
MaxWire == 4

\* The embeddings the sentence model returns: vectors of one fixed, positive
\* length.
ModelVectors == { <<F32(16256, 0), F32(258, 772)>> }

\* What a key may hold before the program runs: nothing, or a book with no
\* embedding, an empty one, or a vector.
StoredBefore == {"nothing", "null", "empty", "vector"}

DocBefore(key, what) ==
    IF what = "nothing" THEN None
    ELSE Some([id |-> IdOf(key),
               embedding |-> CASE what = "null"   -> None
                               [] what = "empty"  -> Some(<<>>)
                               [] what = "vector" -> Some(<<F32(15820, 52429)>>),
               editions |-> << <<"E", "n", "g", "l", "i", "s", "h">> >>])

Init ==
    /\ \E before \in [BookKeys -> StoredBefore] :
          docs = [k \in BookKeys |-> DocBefore(k, before[k])]
    /\ indices \in SUBSET {INDEX_NAME, "idx:other"}
    /\ wire = <<>>
    /\ result = Pending
    /\ InitIdleDecode /\ InitIdleBook /\ InitIdleEncode /\ InitIdleParse

Running(n) == result.kind # "Panic" /\ Len(wire) + n <= MaxWire

NoEmbedding(key) == [kind |-> "Err", why |-> "NoEmbedding", key |-> key]

\* What query(connection) returns for a search the engine answered.
SearchResult(answer) ==
    IF answer.kind = "Err" THEN answer ELSE Recommendations_from_redis_value(answer.val)

\* main's load loop, one file: the book read from the file gets the model's
\* embedding of its description and is stored under its key.
LoadBook(id, embedding) ==
    /\ Running(1)
    /\ LET read == [id |-> id, embedding |-> None, editions |-> <<"English">>]
           loaded == [read EXCEPT !.embedding = Some(embedding)]
           key == KeyOf(loaded.id)
           jv == Book_serialize(loaded)
       IN  /\ docs' = [docs EXCEPT ![key] = Some(jv.o)]
           /\ wire' = Append(wire, Exchange(json_set_command(key, jv), Ok(Okay)))
    /\ result' = Ok(Unit)
    /\ UNCHANGED <<indices, decodeVars, bookVars, encodeVars, parseVars>>

\* create_index, mutated: the listed names are compared with bulk strings.
create_index_compares_data ==
    /\ Running(2)
    /\ \E listed \in {Err("ServerError")} \cup { Ok(l) : l \in IndexLists } :
          LET asked == Append(wire, Exchange(list_command, listed))
          IN  IF /\ listed.kind = "Ok"
                 /\ listed.val.t = "Bulk"
                 /\ \E i \in 1..Len(listed.val.items) :
                       listed.val.items[i] = Data(INDEX_NAME)
              THEN /\ wire' = asked
                   /\ result' = Ok(Unit)
                   /\ UNCHANGED indices
              ELSE IF INDEX_NAME \in indices
              THEN /\ wire' = Append(asked, Exchange(create_command, Err("ServerError")))
                   /\ result' = Err("ServerError")
                   /\ UNCHANGED indices
              ELSE /\ wire' = Append(asked, Exchange(create_command, Ok(Okay)))
                   /\ result' = Ok(Unit)
                   /\ indices' = indices \cup {INDEX_NAME}
    /\ UNCHANGED <<docs, decodeVars, bookVars, encodeVars, parseVars>>

\* create_index: FT._LIST, and FT.CREATE unless the list came back and holds
\* the index's name; the engine refuses to create an index it already has.
create_index ==
    /\ Running(2)
    /\ \E listed \in {Err("ServerError")} \cup { Ok(l) : l \in IndexLists } :
          LET asked == Append(wire, Exchange(list_command, listed))
          IN  IF /\ listed.kind = "Ok"
                 /\ listed.val.t = "Bulk"
                 /\ \E i \in 1..Len(listed.val.items) :
                       listed.val.items[i] = Status(INDEX_NAME)
              THEN /\ wire' = asked
                   /\ result' = Ok(Unit)
                   /\ UNCHANGED indices
              ELSE IF INDEX_NAME \in indices
              THEN /\ wire' = Append(asked, Exchange(create_command, Err("ServerError")))
                   /\ result' = Err("ServerError")
                   /\ UNCHANGED indices
              ELSE /\ wire' = Append(asked, Exchange(create_command, Ok(Okay)))
                   /\ result' = Ok(Unit)
                   /\ indices' = indices \cup {INDEX_NAME}
    /\ UNCHANGED <<docs, decodeVars, bookVars, encodeVars, parseVars>>

\* get_recommendation, mutated: the search is sent before the embedding is
\* looked at.
get_recommendation_checks_late(key) ==
    /\ Running(2)
    /\ LET got == EngineJsonGet(key)
           fetched == Append(wire, Exchange(json_get_command(key), got))
           b == Book_from_redis_value(got.val)
       IN  IF b.kind # "Ok"
           THEN wire' = fetched /\ result' = b
           ELSE \E answer \in SearchReplies :
                   LET v == IF b.val.embedding.some THEN b.val.embedding.v ELSE <<>>
                   IN  /\ wire' = Append(fetched, Exchange(knn_command(encode(v)), answer))
                       /\ result' = IF b.val.embedding.some THEN SearchResult(answer)
                                    ELSE NoEmbedding(key)
    /\ UNCHANGED <<docs, indices, decodeVars, bookVars, encodeVars, parseVars>>

\* get_recommendation: JSON.GET key $, then either the top-K FT.SEARCH with
\* the encoded embedding or the "No embedding found" error.
get_recommendation(key) ==
    /\ Running(2)
    /\ LET got == EngineJsonGet(key)
           fetched == Append(wire, Exchange(json_get_command(key), got))
           b == Book_from_redis_value(got.val)
       IN  IF b.kind # "Ok"
           THEN wire' = fetched /\ result' = b
           ELSE IF b.val.embedding.some
           THEN \E answer \in SearchReplies :
                   /\ wire' = Append(fetched,
                         Exchange(knn_command(encode(b.val.embedding.v)), answer))
                   /\ result' = SearchResult(answer)
           ELSE wire' = fetched /\ result' = NoEmbedding(key)
    /\ UNCHANGED <<docs, indices, decodeVars, bookVars, encodeVars, parseVars>>

\* get_recommendation_by_range: the same with the range FT.SEARCH.
get_recommendation_by_range(key) ==
    /\ Running(2)
    /\ LET got == EngineJsonGet(key)
           fetched == Append(wire, Exchange(json_get_command(key), got))
           b == Book_from_redis_value(got.val)
       IN  IF b.kind # "Ok"
           THEN wire' = fetched /\ result' = b
           ELSE IF b.val.embedding.some
           THEN \E answer \in SearchReplies :
                   /\ wire' = Append(fetched,
                         Exchange(range_command(encode(b.val.embedding.v)), answer))
                   /\ result' = SearchResult(answer)
           ELSE wire' = fetched /\ result' = NoEmbedding(key)
    /\ UNCHANGED <<docs, indices, decodeVars, bookVars, encodeVars, parseVars>>

Next ==
    \/ \E id \in {"9", "26415"}, e \in ModelVectors : LoadBook(id, e)
    \/ create_index
    \/ \E key \in BookKeys : get_recommendation(key)
    \/ \E key \in BookKeys : get_recommendation_by_range(key)

Spec == Init /\ [][Next]_vars

(***************************************************************************)
(* Claims C5, C8, C9, C10: the operations.                                 *)
(***************************************************************************)

IsNoEmbedding(r) == r.kind = "Err" /\ r.why = "NoEmbedding"

IsSearch(x) == x.cmd[1] = Str("FT.SEARCH")
IsList(x)   == x.cmd[1] = Str("FT._LIST")
IsCreate(x) == x.cmd[1] = Str("FT.CREATE") /\ x.cmd[2] = Str(INDEX_NAME)

\* C5 as stated: a similarity request for a record whose embedding is
\* absent returns the missing-embedding error with no command sent on the
\* connection.
C5_NoCommandBeforeError ==
    [][IsNoEmbedding(result') => wire' = wire]_vars

\* C5, amended: a similarity request for a record whose embedding is absent
\* returns the missing-embedding error having sent one command only, the
\* JSON.GET that fetches the record; no search command is sent.
C5_OnlyTheFetchBeforeError ==
    [][IsNoEmbedding(result') =>
          /\ Len(wire') = Len(wire) + 1
          /\ SubSeq(wire', 1, Len(wire)) = wire
          /\ wire'[Len(wire')].cmd = <<Str("JSON.GET"), Str(result'.key), Str("$")>>
          /\ docs[result'.key].some
          /\ ~docs[result'.key].v.embedding.some]_vars

\* The missing-embedding error has been returned for a stored record, with
\* the JSON.GET of that request as the last command on the connection.
C5_Witness ==
    /\ IsNoEmbedding(result)
    /\ docs[result.key].some
    /\ Len(wire) >= 2
    /\ wire[Len(wire)].cmd[1] = Str("JSON.GET")

\* return fields title and score, sort by score, LIMIT 0 5, DIALECT 2
SearchTail ==
    <<Str("RETURN"), Str("2"), Str("title"), Str("score"),
      Str("SORTBY"), Str("score"),
      Str("LIMIT"), Str("0"), Str("5"),
      Str("DIALECT"), Str("2")>>

\* The names of the parameters in a block name_1 value_1 name_2 value_2 ...
ParamNames(block) == [k \in 1..(Len(block) \div 2) |-> block[2 * k - 1]]

\* C8: every search command sent is FT.SEARCH idx:books <query> PARAMS n
\* <n tokens> followed by the same arguments in both modes (RETURN 2 title
\* score SORTBY score LIMIT 0 5 DIALECT 2); the n tokens bind exactly vec in
\* the top-K command and exactly radius and vec in the range command.
C8_SearchCommandShape ==
    \A i \in 1..Len(wire) :
        IsSearch(wire[i]) =>
            LET c == wire[i].cmd
            IN  /\ c[2] = Str(INDEX_NAME)
                /\ c[3] \in {Str(KnnQuery), Str(RangeQuery)}
                /\ c[4] = Str("PARAMS")
                /\ \E n \in 0..(Len(c) - 5) :
                      /\ c[5] = Str(ToString(n))
                      /\ n % 2 = 0
                      /\ SubSeq(c, 6 + n, Len(c)) = SearchTail
                      /\ ParamNames(SubSeq(c, 6, 5 + n)) =
                            IF c[3] = Str(KnnQuery) THEN <<Str("vec")>>
                            ELSE <<Str("radius"), Str("vec")>>
                      /\ c[5 + n].a = "bytes"

\* A top-K and a range search have both been sent.
C8_Witness ==
    /\ \E i \in 1..Len(wire) : IsSearch(wire[i]) /\ wire[i].cmd[3] = Str(KnnQuery)
    /\ \E i \in 1..Len(wire) : IsSearch(wire[i]) /\ wire[i].cmd[3] = Str(RangeQuery)

\* C9: no search command with an empty vector parameter is sent.
C9_NoSearchWithEmptyVector ==
    \A i \in 1..Len(wire) :
        IsSearch(wire[i]) =>
            \A k \in 1..Len(wire[i].cmd) :
                wire[i].cmd[k].a = "bytes" => Len(wire[i].cmd[k].b) > 0

\* The engine answered FT._LIST with a list that holds the index's name.
Listed(x) ==
    /\ x.reply.kind = "Ok"
    /\ \E k \in 1..Len(x.reply.val.items) : x.reply.val.items[k] = Status(INDEX_NAME)

\* C10: FT.CREATE for idx:books is only ever sent right after an FT._LIST
\* that did not list idx:books; a create_index whose FT._LIST lists it
\* returns success; and while the engine answers every FT._LIST with its
\* list, FT.CREATE for idx:books is sent at most once.
C10_CreatesIndexAtMostOnce ==
    /\ \A i \in 1..Len(wire) :
          IsCreate(wire[i]) => i > 1 /\ IsList(wire[i - 1]) /\ ~Listed(wire[i - 1])
    /\ (Len(wire) > 0 /\ IsList(wire[Len(wire)]) /\ Listed(wire[Len(wire)]))
          => result = Ok(Unit)
    /\ (\A i \in 1..Len(wire) : IsList(wire[i]) => wire[i].reply.kind = "Ok")
          => Cardinality({ i \in 1..Len(wire) : IsCreate(wire[i]) }) <= 1

\* create_index has run twice against an engine that answered both lists:
\* the first run created the index, the second found it listed.
C10_Witness ==
    /\ Len(wire) = 3
    /\ IsList(wire[1]) /\ wire[1].reply.kind = "Ok" /\ ~Listed(wire[1])
    /\ IsCreate(wire[2]) /\ wire[2].reply = Ok(Okay)
    /\ IsList(wire[3]) /\ Listed(wire[3])
    /\ result = Ok(Unit)

====
